---- MODULE Spec2Model ----
(***************************************************************************)
(* A model of scripts/collect.py: the collector that attributes git        *)
(* commits to academic e-mail domains, scores them with a harmonic decay   *)
(* and ranks universities.                                                 *)
(*                                                                         *)
(* Python strings are modelled as sequences of one-character strings, so   *)
(* that lower(), strip(), partition(), endswith(), split() and join() are  *)
(* computed character by character.  Python floats are modelled as exact   *)
(* rationals over the common denominator Denom.                            *)
(*                                                                         *)
(* Modelled: the e-mail resolver, the domain normalizer, alias discovery,  *)
(* the scoring loop with its university and contributor accumulators, and  *)
(* the aggregation, sort and ranking of the universities.  Left out: the   *)
(* five auxiliary decay sums and the position lists, which the loop only   *)
(* accumulates for the output, the "projects" part of the output, and a    *)
(* clone that fails (every configured repository is scored; one without    *)
(* commits is skipped by the loop as in the code).  The history git shows  *)
(* for all branches is that of the mainline, newest commit first.          *)
(***************************************************************************)
EXTENDS Integers, Sequences, FiniteSets, TLC

VARIABLES
    call,                \* the pure-function call under study and its results
    repos,               \* load_repos(): the configured slugs, in file order
    uni_map,             \* load_university_map(): domain -> display name
    manual_aliases,      \* load_aliases(): e-mail -> domain
    git_log,             \* slug -> commits (name, e-mail), oldest first
    github_stars,        \* slug -> star count the GitHub API has answered
    pc,                  \* position of main()
    run,                 \* 1 for the first run of main(), 2 for a re-run
    auto_aliases,        \* result of build_auto_aliases
    aliases,             \* merged alias table
    todo,                \* slugs the scoring loop has not yet visited
    uni_order,           \* insertion order of the keys of uni_repo_weighted
    uni_repo_weighted,   \* domain -> slug -> accumulated weight (x Denom)
    uni_repo_commits,    \* domain -> slug -> number of commits
    repo_stars,          \* slug -> stars, for the slugs scored
    repo_total_commits,  \* slug -> number of mainline commits
    repo_contributors,   \* slug -> name -> contributor record
    universities,        \* the ranked output list
    prev_universities    \* the output of the previous run

vars == <<call, repos, uni_map, manual_aliases, git_log, github_stars, pc, run,
          auto_aliases, aliases, todo, uni_order, uni_repo_weighted,
          uni_repo_commits, repo_stars, repo_total_commits, repo_contributors,
          universities, prev_universities>>

-----------------------------------------------------------------------------
(* Strings *)

\* Python's None; no string, since every string is a sequence of characters.
None == <<"None">>

Whitespace == {" ", "\t"}

LowerChar(c) ==
    CASE c = "A" -> "a"
      [] c = "D" -> "d"
      [] c = "E" -> "e"
      [] c = "M" -> "m"
      [] c = "U" -> "u"
      [] OTHER -> c

\* str.lower()
Lower(s) == [i \in 1..Len(s) |-> LowerChar(s[i])]

RECURSIVE LStrip(_)
LStrip(s) ==
    IF s # <<>> /\ Head(s) \in Whitespace THEN LStrip(Tail(s)) ELSE s

RECURSIVE RStrip(_)
RStrip(s) ==
    IF s # <<>> /\ s[Len(s)] \in Whitespace
    THEN RStrip(SubSeq(s, 1, Len(s) - 1))
    ELSE s

\* str.strip()
Strip(s) == RStrip(LStrip(s))

\* c in s
Contains(s, c) == \E i \in 1..Len(s) : s[i] = c

\* s.partition(c)[2]: what follows the first c, "" when there is none
RECURSIVE AfterFirst(_, _)
AfterFirst(s, c) ==
    IF s = <<>> THEN <<>>
    ELSE IF Head(s) = c THEN Tail(s)
    ELSE AfterFirst(Tail(s), c)

\* s.endswith(suffix)
EndsWith(s, suffix) ==
    /\ Len(s) >= Len(suffix)
    /\ SubSeq(s, Len(s) - Len(suffix) + 1, Len(s)) = suffix

\* s.split(sep) for a one-character sep: never empty, [""] for ""
RECURSIVE Split(_, _)
Split(s, sep) ==
    IF ~Contains(s, sep) THEN <<s>>
    ELSE LET i == CHOOSE j \in 1..Len(s) :
                      s[j] = sep /\ \A h \in 1..(j - 1) : s[h] # sep
         IN  <<SubSeq(s, 1, i - 1)>> \o Split(SubSeq(s, i + 1, Len(s)), sep)

\* sep.join(parts)
RECURSIVE Join(_, _)
Join(parts, sep) ==
    IF parts = <<>> THEN <<>>
    ELSE IF Len(parts) = 1 THEN parts[1]
    ELSE parts[1] \o <<sep>> \o Join(Tail(parts), sep)

-----------------------------------------------------------------------------
(* The e-mail resolver and the domain normalizer *)

SUFFIX_EDU == <<".", "e", "d", "u">>
SUFFIX_AC_UK == <<".", "a", "c", ".", "u", "k">>
SUFFIX_ETHZ == <<".", "e", "t", "h", "z", ".", "c", "h">>
SUFFIX_EPFL == <<".", "e", "p", "f", "l", ".", "c", "h">>
SUFFIX_UTORONTO == <<".", "u", "t", "o", "r", "o", "n", "t", "o", ".", "c", "a">>

AcademicSuffixes ==
    {SUFFIX_EDU, SUFFIX_AC_UK, SUFFIX_ETHZ, SUFFIX_EPFL, SUFFIX_UTORONTO}

\* A plausible slip: the check for a second "@" in the domain is left out.
extract_edu_domain_no_at_check(email0) ==
    LET email == Strip(Lower(email0))
        domain == AfterFirst(email, "@")
    IN  IF ~Contains(email, "@") THEN None
        ELSE IF domain = <<>> THEN None
        ELSE IF ~(\E suffix \in AcademicSuffixes : EndsWith(domain, suffix))
        THEN None
        ELSE domain

extract_edu_domain(email0) ==
    LET email == Strip(Lower(email0))
        domain == AfterFirst(email, "@")
    IN  IF ~Contains(email, "@") THEN None
        ELSE IF domain = <<>> \/ Contains(domain, "@") THEN None
        ELSE IF ~(\/ EndsWith(domain, SUFFIX_EDU)
                  \/ EndsWith(domain, SUFFIX_AC_UK)
                  \/ EndsWith(domain, SUFFIX_ETHZ)
                  \/ EndsWith(domain, SUFFIX_EPFL)
                  \/ EndsWith(domain, SUFFIX_UTORONTO))
        THEN None
        ELSE domain

\* parts[i:], for a 0-based i
Slice(parts, i) == SubSeq(parts, i + 1, Len(parts))

\* The loop "for i in range(len(parts) - 1, 0, -1)", entered at i.
RECURSIVE normalize_walk(_, _, _)
normalize_walk(parts, i, map) ==
    IF i < 1 THEN None
    ELSE LET candidate == Join(Slice(parts, i), ".")
         IN  IF candidate \in DOMAIN map THEN candidate
             ELSE normalize_walk(parts, i - 1, map)

\* The same loop walked the other way, "for i in range(1, len(parts))".
RECURSIVE normalize_walk_up(_, _, _)
normalize_walk_up(parts, i, map) ==
    IF i > Len(parts) - 1 THEN None
    ELSE LET candidate == Join(Slice(parts, i), ".")
         IN  IF candidate \in DOMAIN map THEN candidate
             ELSE normalize_walk_up(parts, i + 1, map)

\* A plausible slip: the most specific matching suffix instead of the root.
normalize_domain_most_specific(domain, map) ==
    LET parts == Split(domain, ".")
        found == normalize_walk_up(parts, 1, map)
    IN  IF found # None THEN found ELSE domain

normalize_domain(domain, map) ==
    LET parts == Split(domain, ".")
        found == normalize_walk(parts, Len(parts) - 1, map)
    IN  IF found # None THEN found ELSE domain

resolve_email(email0, table) ==
    LET email == Strip(Lower(email0))
    IN  IF email \in DOMAIN table THEN table[email]
        ELSE extract_edu_domain(email)

-----------------------------------------------------------------------------
(* Bounds and inputs *)

\* Most commits all repositories hold together, in a single run
MaxCommits == 3
\* Most commits all repositories hold together, when main() is run twice
MaxRerunCommits == 4
\* Most commits all repositories hold together, when only aliases are built;
\* none of them repeats an author and address of its repository
MaxPairs == 5
\* Most stars a repository has
MaxStars == 1

Max(a, b) == IF a >= b THEN a ELSE b
Min(a, b) == IF a <= b THEN a ELSE b

RECURSIVE Gcd(_, _)
Gcd(a, b) == IF b = 0 THEN a ELSE Gcd(b, a % b)

RECURSIVE LcmUpTo(_)
LcmUpTo(n) ==
    IF n <= 1 THEN 1
    ELSE LET m == LcmUpTo(n - 1) IN (n * m) \div Gcd(n, m)

\* A float x is held as the integer x * Denom; every weight I / (k + 1) of a
\* repository of at most this many commits is then an integer.
Denom == LcmUpTo(Max(MaxCommits, Max(MaxRerunCommits, MaxPairs)))

Slugs == {"r1", "r2"}

NAME_A == <<"A">>
NAME_B == <<"B">>
Names == {NAME_A, NAME_B}

EMAIL_M == <<"a", "@", "c", ".", "m", ".", "e", "d", "u">>
EMAIL_S == <<"b", "@", "s", ".", "e", "d", "u">>
EMAIL_G == <<"x", "@", "g", ".", "c", "o", "m">>
Emails == {EMAIL_M, EMAIL_S, EMAIL_G}

DOMAIN_M == <<"m", ".", "e", "d", "u">>
DOMAIN_T_RAW == <<"T", ".", "E", "D", "U">>

\* The contents data/universities.json may have
UniversityFiles == {<<>>, (DOMAIN_M :> <<"M", "I", "T">>)}

\* The contents of the "aliases" object data/aliases.json may have
AliasFiles == {<<>>, (EMAIL_G :> DOMAIN_T_RAW)}

\* The orders a set of slugs can be listed in
Orders(S) ==
    {o \in [1..Cardinality(S) -> S] : \A i, j \in DOMAIN o : i # j => o[i] # o[j]}

-----------------------------------------------------------------------------
(* Dictionaries: a function, whose insertion order is kept where the code
   iterates over it *)

EmptyDict == <<>>

DictGet(d, k, default) == IF k \in DOMAIN d THEN d[k] ELSE default

DictSet(d, k, v) == [x \in DOMAIN d \cup {k} |-> IF x = k THEN v ELSE d[x]]

\* {**a, **b}
DictMerge(a, b) ==
    [x \in DOMAIN a \cup DOMAIN b |-> IF x \in DOMAIN b THEN b[x] ELSE a[x]]

\* seq with x appended unless it is there already: the order of a dict's keys
KeyOrder(order, x) ==
    IF \E i \in DOMAIN order : order[i] = x THEN order ELSE Append(order, x)

\* The sum of f[x] over the x of S
RECURSIVE SumOver(_, _)
SumOver(S, f) ==
    IF S = {} THEN 0
    ELSE LET x == CHOOSE y \in S : TRUE IN f[x] + SumOver(S \ {x}, f)

Reverse(seq) == [i \in 1..Len(seq) |-> seq[Len(seq) + 1 - i]]

RECURSIVE Concat(_)
Concat(seqs) == IF seqs = <<>> THEN <<>> ELSE Head(seqs) \o Concat(Tail(seqs))

\* load_aliases: keys and values lower-cased
load_aliases(data) ==
    LET keys == {Lower(k) : k \in DOMAIN data}
    IN  [e \in keys |->
            Lower(data[CHOOSE k \in DOMAIN data : Lower(k) = e])]

-----------------------------------------------------------------------------
(* Alias discovery *)

\* git log --all prints the newest commit first; lines without a name or
\* without an e-mail are dropped.
get_author_email_pairs(log) ==
    LET lines == Reverse(log)
        pair(i) == <<Strip(lines[i][1]), Strip(Lower(lines[i][2]))>>
    IN  SelectSeq([i \in 1..Len(lines) |-> pair(i)],
                  LAMBDA p : p[1] # <<>> /\ p[2] # <<>>)

\* name_to_emails[name].add(email), over the pairs in order
RECURSIVE group_by_name(_, _)
group_by_name(pairs, acc) ==
    IF pairs = <<>> THEN acc
    ELSE LET name == Head(pairs)[1]
             email == Head(pairs)[2]
         IN  group_by_name(Tail(pairs),
                [order |-> KeyOrder(acc.order, name),
                 emails |-> DictSet(acc.emails, name,
                               DictGet(acc.emails, name, {}) \cup {email})])

edu_domains_of(emails, map) ==
    {normalize_domain(extract_edu_domain(e), map) :
        e \in {x \in emails : extract_edu_domain(x) # None}}

non_edu_emails_of(emails) == {e \in emails : extract_edu_domain(e) = None}

\* A plausible slip: every name with an academic address gets its aliases,
\* those with several academic domains too.
alias_one_name_any_domain(table, emails, map) ==
    LET edu_domains == edu_domains_of(emails, map)
        non_edu_emails == non_edu_emails_of(emails)
    IN  IF Cardinality(edu_domains) >= 1 /\ non_edu_emails # {}
        THEN LET edu_domain == CHOOSE d \in edu_domains : TRUE
             IN  [e \in DOMAIN table \cup non_edu_emails |->
                     IF e \in non_edu_emails THEN edu_domain ELSE table[e]]
        ELSE table

\* A plausible slip: an alias already in the table is not written again.
alias_one_name_keep_first(table, emails, map) ==
    LET edu_domains == edu_domains_of(emails, map)
        non_edu_emails == non_edu_emails_of(emails)
    IN  IF Cardinality(edu_domains) = 1 /\ non_edu_emails # {}
        THEN LET edu_domain == CHOOSE d \in edu_domains : TRUE
             IN  [e \in DOMAIN table \cup non_edu_emails |->
                     IF e \in DOMAIN table THEN table[e] ELSE edu_domain]
        ELSE table

\* One turn of "for name, emails in name_to_emails.items()"
alias_one_name(table, emails, map) ==
    LET edu_domains == edu_domains_of(emails, map)
        non_edu_emails == non_edu_emails_of(emails)
    IN  IF Cardinality(edu_domains) = 1 /\ non_edu_emails # {}
        THEN LET edu_domain == CHOOSE d \in edu_domains : TRUE
             IN  [e \in DOMAIN table \cup non_edu_emails |->
                     IF e \in non_edu_emails THEN edu_domain ELSE table[e]]
        ELSE table

RECURSIVE alias_names(_, _, _, _)
alias_names(order, emails, table, map) ==
    IF order = <<>> THEN table
    ELSE alias_names(Tail(order), emails,
                     alias_one_name(table, emails[Head(order)], map), map)

\* repo_logs: the histories of the cloned repositories, in the order of
\* repo_dirs
build_auto_aliases(repo_logs, map) ==
    LET pairs == Concat([i \in 1..Len(repo_logs) |->
                            get_author_email_pairs(repo_logs[i])])
        name_to_emails ==
            group_by_name(pairs, [order |-> <<>>, emails |-> EmptyDict])
    IN  alias_names(name_to_emails.order, name_to_emails.emails, EmptyDict, map)

-----------------------------------------------------------------------------
(* Scoring: phase 3 of main() *)

\* git log --first-parent --reverse: oldest first, every line kept
get_commits_with_order(log) ==
    [i \in 1..Len(log) |-> <<Strip(log[i][1]), Strip(Lower(log[i][2]))>>]

NewContributor == [commits |-> 0, score |-> 0, domain |-> <<>>]

\* A plausible slip: the decay divides by k + 2 instead of k + 1.
score_commit_late(acc, slug, k, commit, repo_importance, table, map) ==
    LET name == commit[1]
        resolved == resolve_email(commit[2], table)
        domain == normalize_domain(resolved, map)
        weight == (repo_importance * Denom) \div (k + 2)
        weights == DictGet(acc.weighted, domain, EmptyDict)
        counts == DictGet(acc.commits, domain, EmptyDict)
        people == DictGet(acc.contributors, slug, EmptyDict)
        contributor == DictGet(people, name, NewContributor)
    IN  IF resolved = None THEN acc
        ELSE [order |-> KeyOrder(acc.order, domain),
              weighted |-> DictSet(acc.weighted, domain,
                              DictSet(weights, slug, DictGet(weights, slug, 0) + weight)),
              commits |-> DictSet(acc.commits, domain,
                              DictSet(counts, slug, DictGet(counts, slug, 0) + 1)),
              contributors |-> DictSet(acc.contributors, slug,
                              DictSet(people, name,
                                  [commits |-> contributor.commits + 1,
                                   score |-> contributor.score + weight,
                                   domain |-> domain]))]

\* The body of "for k, (name, email) in enumerate(commits_list)".
\* acc holds uni_repo_weighted (with the order of its keys), uni_repo_commits
\* and repo_contributors.
score_commit(acc, slug, k, commit, repo_importance, table, map) ==
    LET name == commit[1]
        resolved == resolve_email(commit[2], table)
        domain == normalize_domain(resolved, map)
        weight == (repo_importance * Denom) \div (k + 1)
        weights == DictGet(acc.weighted, domain, EmptyDict)
        counts == DictGet(acc.commits, domain, EmptyDict)
        people == DictGet(acc.contributors, slug, EmptyDict)
        contributor == DictGet(people, name, NewContributor)
    IN  IF resolved = None THEN acc
        ELSE [order |-> KeyOrder(acc.order, domain),
              weighted |-> DictSet(acc.weighted, domain,
                              DictSet(weights, slug, DictGet(weights, slug, 0) + weight)),
              commits |-> DictSet(acc.commits, domain,
                              DictSet(counts, slug, DictGet(counts, slug, 0) + 1)),
              contributors |-> DictSet(acc.contributors, slug,
                              DictSet(people, name,
                                  [commits |-> contributor.commits + 1,
                                   score |-> contributor.score + weight,
                                   domain |-> domain]))]

\* The loop over commits_list, entered at position k
RECURSIVE score_commits(_, _, _, _, _, _, _)
score_commits(acc, slug, k, commits_list, repo_importance, table, map) ==
    IF k >= Len(commits_list) THEN acc
    ELSE score_commits(
             score_commit(acc, slug, k, commits_list[k + 1], repo_importance,
                          table, map),
             slug, k + 1, commits_list, repo_importance, table, map)

-----------------------------------------------------------------------------
(* Aggregation and ranking *)

\* Python's round() of the float x / Denom: to the nearest integer, a half to
\* the even one
Round(x) ==
    LET q == x \div Denom
        r == x % Denom
    IN  IF 2 * r < Denom THEN q
        ELSE IF 2 * r > Denom THEN q + 1
        ELSE IF q % 2 = 0 THEN q ELSE q + 1

\* Where index i goes among the indexes already sorted: behind every index
\* whose key is not smaller, as a stable sort by descending key does.
RECURSIVE insert_by_key(_, _, _)
insert_by_key(out, i, keys) ==
    IF out = <<>> THEN <<i>>
    ELSE IF keys[Head(out)] >= keys[i]
         THEN <<Head(out)>> \o insert_by_key(Tail(out), i, keys)
         ELSE <<i>> \o out

\* The same, but in front of the indexes of equal key.
RECURSIVE insert_before_equal(_, _, _)
insert_before_equal(out, i, keys) ==
    IF out = <<>> THEN <<i>>
    ELSE IF keys[Head(out)] > keys[i]
         THEN <<Head(out)>> \o insert_before_equal(Tail(out), i, keys)
         ELSE <<i>> \o out

RECURSIVE sort_from_unstable(_, _, _)
sort_from_unstable(out, i, keys) ==
    IF i > Len(keys) THEN out
    ELSE sort_from_unstable(insert_before_equal(out, i, keys), i + 1, keys)

RECURSIVE sort_from(_, _, _)
sort_from(out, i, keys) ==
    IF i > Len(keys) THEN out
    ELSE sort_from(insert_by_key(out, i, keys), i + 1, keys)

\* A plausible slip: a sort that does not keep the order of equal keys.
sorted_desc_unstable(items, keys) ==
    LET perm == sort_from_unstable(<<>>, 1, keys)
    IN  [i \in 1..Len(items) |-> items[perm[i]]]

\* list.sort(key=lambda x: -key(x)) and sorted(..., key=...): items in the
\* order of descending keys[i], stable
sorted_desc(items, keys) ==
    LET perm == sort_from(<<>>, 1, keys)
    IN  [i \in 1..Len(items) |-> items[perm[i]]]

\* 2 * stars + total_commits, as the aggregation looks them up
repo_importance_of(slug, stars_by_repo, commits_by_repo) ==
    2 * DictGet(stars_by_repo, slug, 0) + DictGet(commits_by_repo, slug, 1)

\* A plausible slip: the cap is left out.
capped_score_uncapped(weight, repo_importance) == weight

\* score = min(repo_weights[repo_slug], repo_importance)
capped_score(weight, repo_importance) == Min(weight, repo_importance * Denom)

\* The slugs of repo_weights in the order they were inserted, which is the
\* order the repositories were scored in
slugs_in_order(repo_weights, scored) ==
    SelectSeq(scored, LAMBDA r : r \in DOMAIN repo_weights)

\* One turn of "for domain, repo_weights in uni_repo_weighted.items()"
university_entry(domain, repo_weights, repo_commits, scored, stars, totals, map) ==
    LET inserted == slugs_in_order(repo_weights, scored)
        by_weight == sorted_desc(inserted,
                        [i \in 1..Len(inserted) |-> repo_weights[inserted[i]]])
        score_of == [r \in DOMAIN repo_weights |->
                        capped_score(repo_weights[r],
                            repo_importance_of(r, stars, totals))]
        total_score == SumOver(DOMAIN repo_weights, score_of)
    IN  [domain |-> domain,
         name |-> DictGet(map, domain, domain),
         score |-> Round(total_score),
         repos_contributed |-> Cardinality(DOMAIN repo_weights),
         repos |-> [i \in 1..Len(by_weight) |->
                       [repo |-> by_weight[i],
                        commits |-> repo_commits[by_weight[i]],
                        stars |-> DictGet(stars, by_weight[i], 0),
                        score |-> Round(score_of[by_weight[i]])]]]

\* "Compute scores", the sort and "Add ranks"
rank_universities(order, weighted, commits, scored, stars, totals, map) ==
    LET entries == [i \in 1..Len(order) |->
                       university_entry(order[i], weighted[order[i]],
                           commits[order[i]], scored, stars,
                           totals, map)]
        ranked == sorted_desc(entries, [i \in 1..Len(entries) |-> entries[i].score])
    IN  [i \in 1..Len(ranked) |->
            [domain |-> ranked[i].domain,
             name |-> ranked[i].name,
             score |-> ranked[i].score,
             repos_contributed |-> ranked[i].repos_contributed,
             repos |-> ranked[i].repos,
             rank |-> i]]

-----------------------------------------------------------------------------
(* main() *)

NoCall == [fn |-> "none"]

\* The order data/repos.txt lists the repositories in
FileOrder == <<"r1", "r2">>

TotalCommits == SumOver(Slugs, [r \in Slugs |-> Len(git_log[r])])

Init ==
    /\ call = NoCall
    /\ repos = <<>>
    /\ uni_map = EmptyDict
    /\ manual_aliases = EmptyDict
    /\ git_log = [r \in Slugs |-> <<>>]
    /\ github_stars = [r \in Slugs |-> 0]
    /\ pc = "idle"
    /\ run = 1
    /\ auto_aliases = EmptyDict
    /\ aliases = EmptyDict
    /\ todo = <<>>
    /\ uni_order = <<>>
    /\ uni_repo_weighted = EmptyDict
    /\ uni_repo_commits = EmptyDict
    /\ repo_stars = EmptyDict
    /\ repo_total_commits = EmptyDict
    /\ repo_contributors = EmptyDict
    /\ universities = <<>>
    /\ prev_universities = <<>>

\* Before main() runs, somebody commits to the mainline of a repository.
Commit(slug, name, email, bound) ==
    /\ pc = "idle"
    /\ TotalCommits < bound
    /\ git_log' = [git_log EXCEPT ![slug] = Append(@, <<name, email>>)]
    /\ UNCHANGED <<call, repos, uni_map, manual_aliases, github_stars, pc, run,
                   auto_aliases, aliases, todo, uni_order, uni_repo_weighted,
                   uni_repo_commits, repo_stars, repo_total_commits,
                   repo_contributors, universities, prev_universities>>

\* The same, by an author and address the repository has not seen together:
\* alias discovery collects the addresses of a name in a set, so that a pair
\* seen again adds nothing to it.
CommitNewPair(slug, name, email, bound) ==
    /\ \A i \in 1..Len(git_log[slug]) : git_log[slug][i] # <<name, email>>
    /\ Commit(slug, name, email, bound)

\* main() up to phase 1: the three files are loaded and every repository is
\* cloned.
Start(university_file, alias_file) ==
    /\ pc = "idle"
    /\ repos' = FileOrder
    /\ uni_map' = university_file
    /\ manual_aliases' = load_aliases(alias_file)
    /\ pc' = "phase2"
    /\ UNCHANGED <<call, git_log, github_stars, run, auto_aliases, aliases, todo, uni_order,
                   uni_repo_weighted, uni_repo_commits, repo_stars,
                   repo_total_commits, repo_contributors, universities,
                   prev_universities>>

\* Phase 2 and the merge of the two alias tables
BuildAliases ==
    /\ pc = "phase2"
    /\ LET found == build_auto_aliases(
                        [i \in 1..Len(repos) |-> git_log[repos[i]]], uni_map)
       IN  /\ auto_aliases' = found
           /\ aliases' = DictMerge(found, manual_aliases)
    /\ todo' = repos
    /\ uni_order' = <<>>
    /\ uni_repo_weighted' = EmptyDict
    /\ uni_repo_commits' = EmptyDict
    /\ repo_stars' = EmptyDict
    /\ repo_total_commits' = EmptyDict
    /\ repo_contributors' = EmptyDict
    /\ pc' = "phase3"
    /\ UNCHANGED <<call, repos, uni_map, manual_aliases, git_log, github_stars,
                   run, universities, prev_universities>>

\* One turn of "for i, (repo_slug, repo_dir) in enumerate(repo_dirs.items())";
\* stars is what fetch_star_count returns.
ScoreRepo(stars) ==
    /\ pc = "phase3"
    /\ todo # <<>>
    /\ github_stars' = [github_stars EXCEPT ![Head(todo)] = stars]
    /\ LET repo_slug == Head(todo)
           commits_list == get_commits_with_order(git_log[repo_slug])
           total_commits == Len(commits_list)
           repo_importance == 2 * stars + total_commits
           acc == score_commits(
                      [order |-> uni_order, weighted |-> uni_repo_weighted,
                       commits |-> uni_repo_commits,
                       contributors |-> repo_contributors],
                      repo_slug, 0, commits_list, repo_importance, aliases,
                      uni_map)
       IN  /\ repo_stars' = DictSet(repo_stars, repo_slug, stars)
           /\ repo_total_commits' =
                  DictSet(repo_total_commits, repo_slug, total_commits)
           /\ IF total_commits = 0
              THEN UNCHANGED <<uni_order, uni_repo_weighted, uni_repo_commits,
                               repo_contributors>>
              ELSE /\ uni_order' = acc.order
                   /\ uni_repo_weighted' = acc.weighted
                   /\ uni_repo_commits' = acc.commits
                   /\ repo_contributors' = acc.contributors
    /\ todo' = Tail(todo)
    /\ UNCHANGED <<call, repos, uni_map, manual_aliases, git_log, pc, run,
                   auto_aliases, aliases, universities, prev_universities>>

\* "Compute scores", the sort of the universities and their ranks
ComputeScores ==
    /\ pc = "phase3"
    /\ todo = <<>>
    /\ universities' = rank_universities(uni_order, uni_repo_weighted,
                           uni_repo_commits, repos, repo_stars,
                           repo_total_commits, uni_map)
    /\ pc' = "done"
    /\ UNCHANGED <<call, repos, uni_map, manual_aliases, git_log, github_stars,
                   run, auto_aliases, aliases, todo, uni_order,
                   uni_repo_weighted, uni_repo_commits, repo_stars,
                   repo_total_commits, repo_contributors, prev_universities>>

\* main() is run a second time on the same histories, tables and star
\* counts, with the repositories listed in any order.
Rerun(order) ==
    /\ pc = "done"
    /\ run = 1
    /\ run' = 2
    /\ prev_universities' = universities
    /\ repos' = order
    /\ pc' = "phase2"
    /\ UNCHANGED <<call, uni_map, manual_aliases, git_log, github_stars,
                   auto_aliases, aliases, todo, uni_order, uni_repo_weighted,
                   uni_repo_commits, repo_stars, repo_total_commits,
                   repo_contributors, universities>>

\* What the GitHub API may answer: no stars, or MaxStars of them
StarCounts == {0, MaxStars}

Next ==
    \/ \E slug \in Slugs, name \in Names, email \in Emails :
           Commit(slug, name, email, MaxCommits)
    \/ \E university_file \in UniversityFiles, alias_file \in AliasFiles :
           Start(university_file, alias_file)
    \/ BuildAliases
    \/ \E stars \in StarCounts : ScoreRepo(stars)
    \/ ComputeScores

Spec == Init /\ [][Next]_vars

\* Two runs of main() over the same data: no manual aliases, and no stars
\* in either run
NextRerun ==
    \/ \E slug \in Slugs, name \in Names, email \in Emails :
           Commit(slug, name, email, MaxRerunCommits)
    \/ \E university_file \in UniversityFiles :
           Start(university_file, EmptyDict)
    \/ BuildAliases
    \/ ScoreRepo(0)
    \/ ComputeScores
    \/ \E order \in Orders(Slugs) : Rerun(order)

SpecRerun == Init /\ [][NextRerun]_vars

\* Alias discovery alone
NextAlias ==
    \/ \E slug \in Slugs, name \in Names, email \in Emails :
           CommitNewPair(slug, name, email, MaxPairs)
    \/ \E university_file \in UniversityFiles :
           Start(university_file, EmptyDict)
    \/ BuildAliases

SpecAlias == Init /\ [][NextAlias]_vars

-----------------------------------------------------------------------------
(* normalize_domain and resolve_email as functions of their arguments *)

\* Longest domain normalize_domain is given
MaxDomainLen == 5
\* Longest key of the institution map it is given
MaxKeyLen == 3

DomainChars == {"a", "."}

StringsUpTo(chars, n) == UNION {[1..m -> chars] : m \in 0..n}

\* The institution maps tried: those of at most two keys
InstitutionMaps ==
    LET keys == StringsUpTo(DomainChars, MaxKeyLen)
    IN  {EmptyDict} \cup {[k \in {k1, k2} |-> <<"U">>] : k1, k2 \in keys}

InitNormalize ==
    /\ call \in {[fn |-> "normalize_domain", domain |-> d, map |-> m, ret |-> <<>>] :
                    d \in StringsUpTo(DomainChars, MaxDomainLen),
                    m \in InstitutionMaps}
    /\ repos = <<>>
    /\ uni_map = EmptyDict
    /\ manual_aliases = EmptyDict
    /\ git_log = [r \in Slugs |-> <<>>]
    /\ github_stars = [r \in Slugs |-> 0]
    /\ pc = "idle"
    /\ run = 1
    /\ auto_aliases = EmptyDict
    /\ aliases = EmptyDict
    /\ todo = <<>>
    /\ uni_order = <<>>
    /\ uni_repo_weighted = EmptyDict
    /\ uni_repo_commits = EmptyDict
    /\ repo_stars = EmptyDict
    /\ repo_total_commits = EmptyDict
    /\ repo_contributors = EmptyDict
    /\ universities = <<>>
    /\ prev_universities = <<>>

pipeline_vars ==
    <<repos, uni_map, manual_aliases, git_log, github_stars, pc, run,
      auto_aliases, aliases, todo, uni_order, uni_repo_weighted,
      uni_repo_commits, repo_stars, repo_total_commits, repo_contributors,
      universities, prev_universities>>

\* normalize_domain(domain, uni_map)
Normalize ==
    /\ call.fn = "normalize_domain"
    /\ call.ret = <<>>
    /\ call' = [call EXCEPT !.ret = <<normalize_domain(call.domain, call.map)>>]
    /\ UNCHANGED pipeline_vars

\* normalize_domain of the result
NormalizeAgain ==
    /\ call.fn = "normalize_domain"
    /\ Len(call.ret) = 1
    /\ call' = [call EXCEPT !.ret = Append(@, normalize_domain(call.ret[1], call.map))]
    /\ UNCHANGED pipeline_vars

NextNormalize == Normalize \/ NormalizeAgain

SpecNormalize == InitNormalize /\ [][NextNormalize]_vars

\* The e-mail strings tried: blanks, a local part, an "@", a domain and an
\* ending, each of them possibly missing
EmailStrings ==
    LET leading == {<<>>, <<" ">>}
        locals == {<<>>, <<"a">>, <<"A">>}
        ats == {<<>>, <<"@">>}
        hosts == {<<>>, <<"m">>, <<"M">>, <<"c", ".", "m">>, <<"b", "@", "m">>}
        endings == AcademicSuffixes \cup
                   {<<>>, <<".", "E", "D", "U">>, <<".", "c", "o", "m">>,
                    <<"e", "d", "u">>, <<".", "e", "d", "u", ".">>,
                    <<".", "e", "d", "u", "@">>}
        trailing == {<<>>, <<"\t">>}
    IN  {l \o n \o a \o h \o e \o t :
            l \in leading, n \in locals, a \in ats, h \in hosts,
            e \in endings, t \in trailing}

\* The alias tables tried: none, an alias of an academic address, an alias of
\* another address, and a key that is not lower-case
AliasTables ==
    {EmptyDict,
     (<<"a", "@", "m", ".", "e", "d", "u">> :> <<"s", ".", "e", "d", "u">>),
     (<<"a", "@", "m", ".", "c", "o", "m">> :> <<"t", ".", "e", "d", "u">>),
     (<<"A", "@", "m", ".", "c", "o", "m">> :> <<"t", ".", "e", "d", "u">>)}

InitResolve ==
    /\ call \in {[fn |-> "resolve_email", email |-> e, table |-> t, ret |-> <<>>] :
                    e \in EmailStrings, t \in AliasTables}
    /\ repos = <<>>
    /\ uni_map = EmptyDict
    /\ manual_aliases = EmptyDict
    /\ git_log = [r \in Slugs |-> <<>>]
    /\ github_stars = [r \in Slugs |-> 0]
    /\ pc = "idle"
    /\ run = 1
    /\ auto_aliases = EmptyDict
    /\ aliases = EmptyDict
    /\ todo = <<>>
    /\ uni_order = <<>>
    /\ uni_repo_weighted = EmptyDict
    /\ uni_repo_commits = EmptyDict
    /\ repo_stars = EmptyDict
    /\ repo_total_commits = EmptyDict
    /\ repo_contributors = EmptyDict
    /\ universities = <<>>
    /\ prev_universities = <<>>

\* resolve_email(email, aliases)
Resolve ==
    /\ call.fn = "resolve_email"
    /\ call.ret = <<>>
    /\ call' = [call EXCEPT !.ret = <<resolve_email(call.email, call.table)>>]
    /\ UNCHANGED pipeline_vars

NextResolve == Resolve

SpecResolve == InitResolve /\ [][NextResolve]_vars

-----------------------------------------------------------------------------
(* Properties of normalize_domain and resolve_email *)

\* C7: normalize_domain is idempotent: normalizing a normalized domain under
\* the same institution map gives it back.
NormalizeIdempotent ==
    (call.fn = "normalize_domain" /\ Len(call.ret) = 2)
        => call.ret[2] = call.ret[1]

\* A domain that was rolled up to a shorter suffix, and normalized again
NormalizeIdempotentWitness ==
    /\ call.fn = "normalize_domain"
    /\ Len(call.ret) = 2
    /\ call.ret[1] # call.domain
    /\ Cardinality(DOMAIN call.map) = 2

\* The e-mail as resolve_email looks at it
Cleaned(email) == Strip(Lower(email))

AtIndexes(s) == {i \in 1..Len(s) : s[i] = "@"}

\* The part of s behind its first "@"; s has one
DomainPart(s) ==
    LET first == CHOOSE i \in AtIndexes(s) : \A j \in AtIndexes(s) : i <= j
    IN  [i \in 1..(Len(s) - first) |-> s[first + i]]

HasSuffix(s, suffix) ==
    /\ Len(s) >= Len(suffix)
    /\ \A i \in 1..Len(suffix) : s[Len(s) - Len(suffix) + i] = suffix[i]

\* s has exactly one "@", something behind it, and an academic ending
WellFormedAcademic(s) ==
    /\ Cardinality(AtIndexes(s)) = 1
    /\ DomainPart(s) # <<>>
    /\ \E suffix \in AcademicSuffixes : HasSuffix(DomainPart(s), suffix)

\* C8: resolve_email returns None unless the lower-cased, trimmed e-mail is a
\* key of the alias table or what follows its first "@" is non-empty, holds no
\* further "@" and ends with one of the five suffixes; a key of the alias
\* table resolves to the domain the table gives, whatever its own ending.
ResolveOnlyAliasOrAcademic ==
    (call.fn = "resolve_email" /\ call.ret # <<>>) =>
        LET e == Cleaned(call.email)
        IN  /\ call.ret[1] # None =>
                   (e \in DOMAIN call.table \/ WellFormedAcademic(e))
            /\ e \in DOMAIN call.table => call.ret[1] = call.table[e]

\* An academic address, upper-case and padded, that is a key of the alias
\* table: it resolves to the aliased domain, not to its own.
ResolveOnlyAliasOrAcademicWitness ==
    /\ call.fn = "resolve_email"
    /\ call.ret # <<>>
    /\ call.email # Cleaned(call.email)
    /\ Cleaned(call.email) \in DOMAIN call.table
    /\ WellFormedAcademic(Cleaned(call.email))
    /\ call.ret[1] # DomainPart(Cleaned(call.email))

-----------------------------------------------------------------------------
(* Properties of alias discovery *)

\* build_auto_aliases has returned
AliasesBuilt == pc \in {"phase3", "done"}

\* Every (name, e-mail) of every repository
AllPairs ==
    UNION {{<<Strip(git_log[r][i][1]), Cleaned(git_log[r][i][2])>> :
               i \in 1..Len(git_log[r])} : r \in Slugs}

EmailsOf(n) == {p[2] : p \in {q \in AllPairs : q[1] = n}}

Resolving(n) == {e \in EmailsOf(n) : extract_edu_domain(e) # None}

NonResolving(n) == EmailsOf(n) \ Resolving(n)

DomainsOf(n) ==
    {normalize_domain(extract_edu_domain(e), uni_map) : e \in Resolving(n)}

\* n's resolving e-mails normalize to exactly one domain, and n has an e-mail
\* that does not resolve
Qualifies(n) == Cardinality(DomainsOf(n)) = 1 /\ NonResolving(n) # {}

TheDomain(n) == CHOOSE d \in DomainsOf(n) : TRUE

Ambiguous(n) == Cardinality(DomainsOf(n)) > 1

\* Where n shows up first in what alias discovery reads: the repositories in
\* the order of repos, each from its newest commit to its oldest
FirstSeen(n) ==
    LET lines == Concat([i \in 1..Len(repos) |-> Reverse(git_log[repos[i]])])
    IN  CHOOSE i \in 1..Len(lines) :
            /\ Strip(lines[i][1]) = n
            /\ \A j \in 1..(i - 1) : Strip(lines[j][1]) # n

\* C3, as claimed: every non-resolving e-mail of a name with exactly one
\* academic domain d is mapped to d, also when another name uses the e-mail.
AliasForEveryNonResolvingEmail ==
    AliasesBuilt =>
        \A n \in Names : Qualifies(n) =>
            \A e \in NonResolving(n) :
                e \in DOMAIN auto_aliases /\ auto_aliases[e] = TheDomain(n)

\* C3, amended: every such e-mail is a key of the table, mapped to d unless
\* another name with exactly one academic domain, a different one, has the
\* e-mail too and is seen later; the table then holds the domain of the last
\* of these names.
AliasForEveryNonResolvingEmailLastWins ==
    AliasesBuilt =>
        \A n \in Names : Qualifies(n) =>
            \A e \in NonResolving(n) :
                /\ e \in DOMAIN auto_aliases
                /\ \/ auto_aliases[e] = TheDomain(n)
                   \/ \E other \in Names \ {n} :
                          /\ Qualifies(other)
                          /\ e \in NonResolving(other)
                          /\ FirstSeen(other) > FirstSeen(n)
                          /\ auto_aliases[e] = TheDomain(other)
                /\ (\A other \in Names \ {n} :
                        (Qualifies(other) /\ e \in NonResolving(other)) =>
                            \/ FirstSeen(other) < FirstSeen(n)
                            \/ TheDomain(other) = TheDomain(n))
                       => auto_aliases[e] = TheDomain(n)

\* Two names with one academic domain each, not the same one, share an e-mail
\* that does not resolve.
AliasForEveryNonResolvingEmailWitness ==
    /\ AliasesBuilt
    /\ \E n \in Names, other \in Names :
           /\ Qualifies(n) /\ Qualifies(other)
           /\ TheDomain(n) # TheDomain(other)
           /\ NonResolving(n) \cap NonResolving(other) # {}
           /\ Cardinality({r \in Slugs : git_log[r] # <<>>}) = 2

\* C4, as claimed: no non-resolving e-mail of a name with several academic
\* domains is a key of the alias table, whatever else the input holds.
NoAliasForAmbiguousName ==
    AliasesBuilt =>
        \A n \in Names : Ambiguous(n) =>
            \A e \in NonResolving(n) : e \notin DOMAIN auto_aliases

\* C4, amended: such an e-mail is a key of the alias table only when another
\* name, one with exactly one academic domain, has it too, and it is then
\* mapped to that name's domain.
NoAliasFromAmbiguousName ==
    AliasesBuilt =>
        \A n \in Names : Ambiguous(n) =>
            \A e \in NonResolving(n) :
                e \in DOMAIN auto_aliases =>
                    \E other \in Names \ {n} :
                        /\ Qualifies(other)
                        /\ e \in NonResolving(other)
                        /\ auto_aliases[e] = TheDomain(other)

\* A name with two academic domains and an e-mail that does not resolve, for
\* which no alias was made
NoAliasFromAmbiguousNameWitness ==
    /\ AliasesBuilt
    /\ \E n \in Names :
           /\ Ambiguous(n)
           /\ \E e \in NonResolving(n) : e \notin DOMAIN auto_aliases

-----------------------------------------------------------------------------
(* Properties of scoring *)

\* The repositories the scoring loop has been through
ScoredRepos == IF pc \in {"phase3", "done"} THEN DOMAIN repo_total_commits ELSE {}

\* The domain commit number i (from 1) of r counts for, None if none
CommitDomain(r, i) ==
    LET resolved == resolve_email(Cleaned(git_log[r][i][2]), aliases)
    IN  IF resolved = None THEN None ELSE normalize_domain(resolved, uni_map)

\* The domain of every commit of r, in order
CommitDomains(r) == [i \in 1..Len(git_log[r]) |-> CommitDomain(r, i)]

\* The commits, among those of domains doms, that count for d
CommitsFor(doms, d) == {i \in DOMAIN doms : doms[i] = d}

Importance(r) == 2 * github_stars[r] + Len(git_log[r])

\* importance / (k + 1) for every position k + 1 up to n
HarmonicWeights(importance, n) ==
    [i \in 1..n |-> (importance * Denom) \div i]

\* The sum of I / (k + 1) over the commits of r that count for d
ExpectedWeight(d, r) ==
    LET doms == CommitDomains(r)
    IN  SumOver(CommitsFor(doms, d), HarmonicWeights(Importance(r), Len(doms)))

Bucket(dict, d, r) == DictGet(DictGet(dict, d, EmptyDict), r, 0)

\* C9: once a repository of N > 0 commits is scored, the bucket of every
\* domain d holds the sum of I / (k + 1) over the positions k of the commits
\* that resolve and normalize to d, and the number of those commits; commits
\* that do not resolve are in no bucket; no bucket exceeds I times H_N.
BucketHoldsHarmonicSum ==
    \A r \in ScoredRepos : Len(git_log[r]) > 0 =>
        \A doms \in {CommitDomains(r)} :
        \A weights \in {HarmonicWeights(Importance(r), Len(doms))} :
            /\ None \notin DOMAIN uni_repo_weighted
            /\ \A d \in (DOMAIN uni_repo_weighted
                            \cup {doms[i] : i \in DOMAIN doms}) \ {None} :
                   /\ Bucket(uni_repo_weighted, d, r)
                          = SumOver(CommitsFor(doms, d), weights)
                   /\ Bucket(uni_repo_commits, d, r)
                          = Cardinality(CommitsFor(doms, d))
                   /\ Bucket(uni_repo_weighted, d, r)
                          <= SumOver(DOMAIN doms, weights)

\* A scored repository with stars, with a commit that does not resolve and
\* with two commits that count for one domain
BucketHoldsHarmonicSumWitness ==
    \E r \in ScoredRepos :
        LET doms == CommitDomains(r)
        IN  /\ github_stars[r] > 0
            /\ CommitsFor(doms, None) # {}
            /\ \E i, j \in DOMAIN doms :
                   i # j /\ doms[i] = doms[j] /\ doms[i] # None

\* Every domain some commit counts for, and every domain with a bucket
DomainsSeen ==
    DOMAIN uni_repo_weighted \cup
    (UNION {{CommitDomain(r, i) : i \in 1..Len(git_log[r])} : r \in Slugs}
        \ {None})

\* C6, as claimed: what a contributor has earned in a repository never
\* exceeds the importance of the repository.
ContributorRewardBounded ==
    \A r \in ScoredRepos :
        \A n \in DOMAIN DictGet(repo_contributors, r, EmptyDict) :
            repo_contributors[r][n].score <= Importance(r) * Denom

\* The contributors of r whose recorded domain is d
ContributorsOf(d, r) ==
    {n \in DOMAIN DictGet(repo_contributors, r, EmptyDict) :
        repo_contributors[r][n].domain = d}

\* C10, as claimed: in every scored repository, the scores and the commit
\* counts of the contributors recorded under a domain add up to the bucket of
\* that domain.
ContributorAccountingAgrees ==
    \A r \in ScoredRepos : \A d \in DomainsSeen :
        /\ SumOver(ContributorsOf(d, r),
                   [n \in ContributorsOf(d, r) |-> repo_contributors[r][n].score])
               = Bucket(uni_repo_weighted, d, r)
        /\ SumOver(ContributorsOf(d, r),
                   [n \in ContributorsOf(d, r) |-> repo_contributors[r][n].commits])
               = Bucket(uni_repo_commits, d, r)

-----------------------------------------------------------------------------
(* Properties of aggregation and ranking *)

\* The sum of I / (k + 1) over the commits that count for d, capped at I,
\* in a repository of importance I whose commits count for doms
ExpectedCapped(doms, d, importance) ==
    Min(SumOver(CommitsFor(doms, d), HarmonicWeights(importance, Len(doms))),
        importance * Denom)

\* C1: after aggregation, what a university is credited for a repository it
\* touched is min(accumulated weight, 2 * stars + total_commits), which is at
\* most the importance of the repository, and its total is the sum of these
\* capped scores; the output holds both rounded to integers.
ScoreCappedAtImportance ==
    pc = "done" =>
        \A doms \in {[r \in Slugs |-> CommitDomains(r)]} :
            /\ {universities[i].domain : i \in DOMAIN universities} =
                   UNION {{doms[r][i] : i \in DOMAIN doms[r]} : r \in Slugs}
                       \ {None}
            /\ \A i \in DOMAIN universities :
                   \A touched \in
                       {{r \in Slugs : CommitsFor(doms[r], universities[i].domain) # {}}} :
                   \A expected \in
                       {[r \in Slugs |->
                            ExpectedCapped(doms[r], universities[i].domain,
                                           Importance(r))]} :
                       LET u == universities[i]
                       IN  /\ {u.repos[j].repo : j \in DOMAIN u.repos} = touched
                           /\ Len(u.repos) = Cardinality(touched)
                           /\ \A j \in DOMAIN u.repos :
                                  LET r == u.repos[j].repo
                                  IN  /\ capped_score(
                                             Bucket(uni_repo_weighted, u.domain, r),
                                             repo_importance_of(r, repo_stars,
                                                 repo_total_commits))
                                             = expected[r]
                                      /\ u.repos[j].score = Round(expected[r])
                                      /\ u.repos[j].score <= Importance(r)
                           /\ u.score = Round(SumOver(touched, expected))

\* A university that touched two repositories and earned more than the
\* importance of one of them
ScoreCappedAtImportanceWitness ==
    /\ pc = "done"
    /\ \E i \in DOMAIN universities :
           /\ Len(universities[i].repos) = 2
           /\ \E r \in Slugs :
                  ExpectedWeight(universities[i].domain, r) > Importance(r) * Denom
                      /\ Importance(r) > 0

Position(seq, x) == CHOOSE i \in DOMAIN seq : seq[i] = x

\* C2: the ranks are 1..len(universities) in order, the scores do not
\* increase down the list, and universities of equal score stand in the order
\* aggregation produced them, which is the order of uni_repo_weighted.
RanksDenseAndStable ==
    pc = "done" =>
        /\ Len(universities) = Len(uni_order)
        /\ {universities[i].domain : i \in DOMAIN universities} =
               {uni_order[i] : i \in DOMAIN uni_order}
        /\ \A i \in DOMAIN universities : universities[i].rank = i
        /\ \A i, j \in DOMAIN universities :
               i < j =>
                   /\ universities[i].score >= universities[j].score
                   /\ universities[i].score = universities[j].score =>
                          Position(uni_order, universities[i].domain)
                              < Position(uni_order, universities[j].domain)

\* Three universities, two of them tied, that aggregation did not produce in
\* the order of their scores
RanksDenseAndStableWitness ==
    /\ pc = "done"
    /\ Len(universities) = 3
    /\ \E i, j \in DOMAIN universities :
           i < j /\ universities[i].score = universities[j].score
    /\ \E i \in DOMAIN universities : universities[i].domain # uni_order[i]

ScoreIn(list, d) ==
    IF \E i \in DOMAIN list : list[i].domain = d
    THEN list[CHOOSE i \in DOMAIN list : list[i].domain = d].score
    ELSE 0

\* C5, as claimed: a second run over the same histories, star counts,
\* institution map and manual aliases gives every university the score the
\* first run gave it, whatever order the repositories are processed in.
ScoresIndependentOfOrder ==
    (pc = "done" /\ run = 2) =>
        \A d \in {universities[i].domain : i \in DOMAIN universities}
                 \cup {prev_universities[i].domain : i \in DOMAIN prev_universities} :
            ScoreIn(universities, d) = ScoreIn(prev_universities, d)

====
